---- MODULE Spec2Model ----
(***************************************************************************)
(* GPU radix sort (WebGPU_sort): the layout calculator, the resource set   *)
(* builder, the recording of a sort into a command encoder and the device  *)
(* executing the recorded dispatches in order.                             *)
(***************************************************************************)
EXTENDS Integers, Sequences, FiniteSets, TLC

\* ------------------------------------------------------------------ bounds

\* largest element count of a resource set whose contents are modelled
MaxLen == 3

\* number of sort()/sort_indirect() calls made in one run
MaxSorts == 2

\* largest element count given to the layout calculator in LayoutSpec
MaxN == 8200

\* ------------------------------------------------------- program constants

HISTOGRAM_WG_SIZE == 256

PREFIX_WG_SIZE == 128

SCATTER_WG_SIZE == 256

RS_RADIX_LOG2 == 8

RS_RADIX_SIZE == 2 ^ RS_RADIX_LOG2

RS_KEYVAL_SIZE == 32 \div RS_RADIX_LOG2

RS_HISTOGRAM_BLOCK_ROWS == 15

RS_SCATTER_BLOCK_ROWS == RS_HISTOGRAM_BLOCK_ROWS

SCATTER_BLOCK_KVS == HISTOGRAM_WG_SIZE * RS_SCATTER_BLOCK_ROWS

HISTO_BLOCK_KVS == HISTOGRAM_WG_SIZE * RS_HISTOGRAM_BLOCK_ROWS

BYTES_PER_PAYLOAD_ELEM == 4

NUM_PASSES == BYTES_PER_PAYLOAD_ELEM

\* the value of an omitted sort_first_n
NULL == -1

\* ------------------------------------------------------- layout calculator

\* a plausible slip: rounding down instead of up
scatter_blocks_ru_floor(n) == n \div SCATTER_BLOCK_KVS

scatter_blocks_ru(n) == (n + SCATTER_BLOCK_KVS - 1) \div SCATTER_BLOCK_KVS

\* a plausible slip: the rounding term one too large
histo_blocks_ru_extra(n) ==
    (scatter_blocks_ru(n) * SCATTER_BLOCK_KVS + HISTO_BLOCK_KVS) \div HISTO_BLOCK_KVS

histo_blocks_ru(n) ==
    (scatter_blocks_ru(n) * SCATTER_BLOCK_KVS + HISTO_BLOCK_KVS - 1) \div HISTO_BLOCK_KVS

\* a plausible slip: the capacity not padded to whole blocks
keys_buffer_size_unpadded(n) == n

keys_buffer_size(n) == histo_blocks_ru(n) * HISTO_BLOCK_KVS

\* ------------------------------------------------------------------ inputs

\* 32-bit keys whose four 8-bit digits order them differently:
\* 0x00000201, 0x00010003, 0x01000002
KeySet == {513, 65539, 16777218}

\* payload arrays: the identity payloads of the self-test scenario, and
\* payloads that repeat
Payloads(n) == {[i \in 1 .. n |-> i - 1], [i \in 1 .. n |-> 10 + (i % 2)]}

Lengths == 0 .. MaxLen

\* element counts given to sort() as sort_first_n: omitted, none, one (less
\* than, equal to or more than len()), and one that needs two blocks
SortFirstN == {NULL, 0, 1, SCATTER_BLOCK_KVS + 1}

\* x values an earlier stage may have left in the indirect dispatch buffer
DispatchX == 0 .. 1

Zeros(n) == [i \in 1 .. n |-> 0]

Min(a, b) == IF a <= b THEN a ELSE b

Max(a, b) == IF a >= b THEN a ELSE b

\* ------------------------------------------------------------------- state

VARIABLES
    sorter,          \* GPUSorter: the five pipelines
    sort_buffers,    \* SortBuffers: host object, buffer byte sizes and length
    gpu,             \* device memory: contents of the six bound buffers
    encoder,         \* GPUCommandEncoder being recorded
    queue,           \* commands submitted to the device queue, not yet executed
    dispatch_buffer, \* indirect dispatch arguments (x, y, z)
    input_keys,      \* keys last uploaded to the primary key buffer
    input_payload,   \* payloads last uploaded to the primary payload buffer
    uploaded,        \* whether the drivers' upload has been done
    recorded,        \* number of sort calls made so far
    pending,         \* the sort call recorded in the current encoder
    inflight,        \* the sort call whose commands the device is executing
    history,         \* the sort calls the device has executed since creation
    calc,            \* layout calculator run (LayoutSpec)
    sessions,        \* sort sessions on several resource sets (SessionsSpec)
    guess            \* guess_workgroup_size run (GuessSpec)

vars == <<sorter, sort_buffers, gpu, encoder, queue, dispatch_buffer,
          input_keys, input_payload, uploaded, recorded, pending, inflight,
          history, calc, sessions, guess>>

\* ------------------------------------------------------- command encoder

Cmd(op, p, x, data) == [op |-> op, p |-> p, x |-> x, data |-> data]

NewEncoder == [cmds |-> <<>>, open |-> 0, valid |-> TRUE]

\* one call on the encoder or on its current pass: the call is logged; a
\* pass begun while another is open invalidates the encoder
Call(e, c) ==
    LET logged == [e EXCEPT !.cmds = Append(@, c)]
    IN  CASE c.op = "beginComputePass" ->
                [logged EXCEPT !.open = @ + 1,
                               !.valid = @ /\ e.open = 0]
          [] c.op = "end" ->
                [logged EXCEPT !.open = Max(@ - 1, 0)]
          [] c.op = "copyBufferToBuffer" ->
                [logged EXCEPT !.valid = @ /\ e.open = 0 /\ c.x <= sort_buffers[c.p]]
          [] OTHER -> logged

RECURSIVE Record(_, _)
Record(e, cs) == IF cs = <<>> THEN e ELSE Record(Call(e, Head(cs)), Tail(cs))

beginComputePass == Cmd("beginComputePass", "", 0, <<>>)

setPipeline(p) == Cmd("setPipeline", p, 0, <<>>)

setBindGroup(bind_group) == Cmd("setBindGroup", "", bind_group, <<>>)

dispatchWorkgroups(x) == Cmd("dispatchWorkgroups", "", x, <<>>)

dispatchWorkgroupsIndirect(offset) == Cmd("dispatchWorkgroupsIndirect", "", offset, <<>>)

end == Cmd("end", "", 0, <<>>)

copyBufferToBuffer(dst, size, data) == Cmd("copyBufferToBuffer", dst, size, data)

\* ---------------------------------------------------- resource set builder

\* byte size of the staging buffer made for contents of a typed array
createBufferInit(contents) ==
    LET byteLength == 4 * Len(contents)
        alignMask == 4 - 1
    IN  Max(((byteLength + alignMask) \div 4) * 4, 4)

upload_to_buffer(buffer, values) ==
    copyBufferToBuffer(buffer, createBufferInit(values), values)

\* byte sizes of the four key/payload buffers
create_keyval_buffers(length) ==
    LET count_ru_histo == keys_buffer_size(length) * RS_KEYVAL_SIZE
        payload_size == length * BYTES_PER_PAYLOAD_ELEM
    IN  [keys |-> count_ru_histo * BYTES_PER_PAYLOAD_ELEM,
         keys_aux |-> count_ru_histo * BYTES_PER_PAYLOAD_ELEM,
         payload |-> payload_size,
         payload_aux |-> payload_size]

\* byte size of the internal scratch buffer
create_internal_mem_buffer(length) ==
    LET scatter_blocks_ruVar == scatter_blocks_ru(length)
        histo_size == RS_RADIX_SIZE * 4
    IN  (RS_KEYVAL_SIZE + scatter_blocks_ruVar) * histo_size

\* a plausible slip: the two size fields swapped
general_info_data_swapped(length) ==
    [num_keys |-> keys_buffer_size(length), padded_size |-> length,
     even_pass |-> 0, odd_pass |-> 0]

general_info_data(length) ==
    [num_keys |-> length, padded_size |-> keys_buffer_size(length),
     even_pass |-> 0, odd_pass |-> 0]

NoSortBuffers ==
    [created |-> FALSE, length |-> 0, keys_a |-> 0, keys_b |-> 0,
     payload_a |-> 0, payload_b |-> 0, internal_mem_buffer |-> 0,
     state_bufferVar |-> 0, bind_group |-> 0]

EmptyHistograms == [p \in 0 .. (NUM_PASSES - 1) |-> <<>>]

NoGpu ==
    [keys_a |-> <<>>, keys_b |-> <<>>, payload_a |-> <<>>, payload_b |-> <<>>,
     state |-> general_info_data(0), histograms |-> EmptyHistograms]

\* SortBuffers.len
len == sort_buffers.length

\* SortBuffers.keys: the name of the buffer handed out
keys == "keys_a"

\* a plausible slip: the auxiliary payload buffer handed out
values_aux == "payload_b"

\* SortBuffers.values
values == "payload_a"

\* a plausible slip: the padded size reported as the valid size
keys_valid_size_padded == keys_buffer_size(len) * RS_KEYVAL_SIZE

\* SortBuffers.keys_valid_size
keys_valid_size == len * RS_KEYVAL_SIZE

\* GPUSorter.create_sort_buffers: the buffers are zero-initialised by the
\* device, the state record is written at creation
create_sort_buffers(length) ==
    /\ ~sort_buffers.created
    /\ calc.pc = "off"
    /\ LET keyValBuffer == create_keyval_buffers(length)
           internal_mem_buffer == create_internal_mem_buffer(length)
           uniform_infos == general_info_data(length)
       IN  /\ sort_buffers' =
                [created |-> TRUE, length |-> length,
                 keys_a |-> keyValBuffer.keys, keys_b |-> keyValBuffer.keys_aux,
                 payload_a |-> keyValBuffer.payload,
                 payload_b |-> keyValBuffer.payload_aux,
                 internal_mem_buffer |-> internal_mem_buffer,
                 state_bufferVar |->
                    createBufferInit(<<uniform_infos.num_keys, uniform_infos.padded_size,
                                       uniform_infos.even_pass, uniform_infos.odd_pass>>),
                 bind_group |-> 1]
           /\ gpu' = [keys_a |-> Zeros(length), keys_b |-> Zeros(length),
                      payload_a |-> Zeros(length), payload_b |-> Zeros(length),
                      state |-> [num_keys |-> uniform_infos.num_keys,
                                 padded_size |-> uniform_infos.padded_size,
                                 even_pass |-> uniform_infos.even_pass,
                                 odd_pass |-> uniform_infos.odd_pass],
                      histograms |-> EmptyHistograms]
    /\ input_keys' = Zeros(length)
    /\ input_payload' = Zeros(length)
    /\ UNCHANGED <<sorter, encoder, queue, dispatch_buffer, uploaded, recorded,
                   pending, inflight, history, calc,
                   sessions, guess>>

\* ------------------------------------------------------------ the drivers

NoCall == [op |-> "none", sort_first_n |-> NULL]

CanUpload ==
    /\ sort_buffers.created
    /\ ~uploaded
    /\ recorded = 0

\* main: the keys are written through the queue at once, the payloads are
\* copied by the encoder
main_upload(keys_scrambled, values_scrambled) ==
    /\ CanUpload
    /\ Len(keys_scrambled) = len
    /\ Len(values_scrambled) = len
    /\ gpu' = [gpu EXCEPT !.keys_a = keys_scrambled]
    /\ encoder' = Record(encoder, <<upload_to_buffer(values, values_scrambled)>>)
    /\ input_keys' = keys_scrambled
    /\ input_payload' = values_scrambled
    /\ uploaded' = TRUE
    /\ UNCHANGED <<sorter, sort_buffers, queue, dispatch_buffer, recorded, pending,
                   inflight, history, calc,
                   sessions, guess>>

\* test_sort: the keys are copied by the encoder, no payload is uploaded
test_upload(scrambled_data) ==
    /\ CanUpload
    /\ Len(scrambled_data) = len
    /\ encoder' = Record(encoder, <<upload_to_buffer(keys, scrambled_data)>>)
    /\ input_keys' = scrambled_data
    /\ uploaded' = TRUE
    /\ UNCHANGED <<sorter, sort_buffers, gpu, queue, dispatch_buffer,
                   input_payload, recorded, pending, inflight, history, calc,
                   sessions, guess>>

\* ------------------------------------------------------------ sort session

record_calculate_histogram(bind_group, length) ==
    LET hist_blocks_ru == histo_blocks_ru(length)
    IN  <<beginComputePass,
          setPipeline(sorter.zero_p),
          setBindGroup(bind_group),
          dispatchWorkgroups(hist_blocks_ru),
          end,
          beginComputePass,
          setPipeline(sorter.histogram_p),
          setBindGroup(bind_group),
          dispatchWorkgroups(hist_blocks_ru),
          end>>

record_calculate_histogram_indirect(bind_group) ==
    <<beginComputePass,
      setPipeline(sorter.zero_p),
      setBindGroup(bind_group),
      dispatchWorkgroupsIndirect(0),
      beginComputePass,
      setPipeline(sorter.histogram_p),
      setBindGroup(bind_group),
      dispatchWorkgroupsIndirect(0)>>

record_prefix_histogram(bind_group) ==
    <<beginComputePass,
      setPipeline(sorter.prefix_p),
      setBindGroup(bind_group),
      dispatchWorkgroups(NUM_PASSES),
      end>>

\* a plausible slip: the two parities recorded in the wrong order
record_scatter_keys_odd_first(bind_group, length) ==
    LET scatter_blocks_ruVar == scatter_blocks_ru(length)
    IN  <<beginComputePass,
          setBindGroup(bind_group),
          setPipeline(sorter.scatter_odd_p),
          dispatchWorkgroups(scatter_blocks_ruVar),
          setPipeline(sorter.scatter_even_p),
          dispatchWorkgroups(scatter_blocks_ruVar),
          setPipeline(sorter.scatter_odd_p),
          dispatchWorkgroups(scatter_blocks_ruVar),
          setPipeline(sorter.scatter_even_p),
          dispatchWorkgroups(scatter_blocks_ruVar),
          end>>

\* a plausible slip: the last scatter pass left out
record_scatter_keys_three(bind_group, length) ==
    LET scatter_blocks_ruVar == scatter_blocks_ru(length)
    IN  <<beginComputePass,
          setBindGroup(bind_group),
          setPipeline(sorter.scatter_even_p),
          dispatchWorkgroups(scatter_blocks_ruVar),
          setPipeline(sorter.scatter_odd_p),
          dispatchWorkgroups(scatter_blocks_ruVar),
          setPipeline(sorter.scatter_even_p),
          dispatchWorkgroups(scatter_blocks_ruVar),
          end>>

record_scatter_keys(bind_group, length) ==
    LET scatter_blocks_ruVar == scatter_blocks_ru(length)
    IN  <<beginComputePass,
          setBindGroup(bind_group),
          setPipeline(sorter.scatter_even_p),
          dispatchWorkgroups(scatter_blocks_ruVar),
          setPipeline(sorter.scatter_odd_p),
          dispatchWorkgroups(scatter_blocks_ruVar),
          setPipeline(sorter.scatter_even_p),
          dispatchWorkgroups(scatter_blocks_ruVar),
          setPipeline(sorter.scatter_odd_p),
          dispatchWorkgroups(scatter_blocks_ruVar),
          end>>

record_scatter_keys_indirect(bind_group) ==
    <<beginComputePass,
      setBindGroup(bind_group),
      setPipeline(sorter.scatter_even_p),
      dispatchWorkgroupsIndirect(0),
      setPipeline(sorter.scatter_odd_p),
      dispatchWorkgroupsIndirect(0),
      setPipeline(sorter.scatter_even_p),
      dispatchWorkgroupsIndirect(0),
      setPipeline(sorter.scatter_odd_p),
      dispatchWorkgroupsIndirect(0)>>

\* a sort session: one sort call per command encoder, recorded once the
\* device has finished the work submitted before
CanRecord ==
    /\ sort_buffers.created
    /\ queue = <<>>
    /\ pending = NoCall
    /\ recorded < MaxSorts

\* a plausible slip: the count of the buffers used whatever sort_first_n is
num_elements_len(sort_first_n) == len

\* the element count sort() works with
num_elements(sort_first_n) == IF sort_first_n # NULL THEN sort_first_n ELSE len

\* GPUSorter.sort
sort(sort_first_n) ==
    /\ CanRecord
    /\ LET bind_group == sort_buffers.bind_group
       IN  encoder' = Record(encoder,
                record_calculate_histogram(bind_group, num_elements(sort_first_n))
                \o record_prefix_histogram(bind_group)
                \o record_scatter_keys(bind_group, num_elements(sort_first_n)))
    /\ pending' = [op |-> "sort", sort_first_n |-> sort_first_n]
    /\ recorded' = recorded + 1
    /\ UNCHANGED <<sorter, sort_buffers, gpu, queue, dispatch_buffer, input_keys,
                   input_payload, uploaded, inflight, history, calc,
                   sessions, guess>>

\* GPUSorter.sort_indirect, the dispatch buffer holding (x, 1, 1)
sort_indirect(x) ==
    /\ CanRecord
    /\ dispatch_buffer' = <<x, 1, 1>>
    /\ LET bind_group == sort_buffers.bind_group
       IN  encoder' = Record(encoder,
                record_calculate_histogram_indirect(bind_group)
                \o record_prefix_histogram(bind_group)
                \o record_scatter_keys_indirect(bind_group))
    /\ pending' = [op |-> "sort_indirect", sort_first_n |-> x]
    /\ recorded' = recorded + 1
    /\ UNCHANGED <<sorter, sort_buffers, gpu, queue, input_keys, input_payload,
                   uploaded, inflight, history, calc,
                   sessions, guess>>

\* ------------------------------------------------------------- submission

\* the work a finished command buffer holds: each copy, and each dispatch
\* with the pipeline and bind group set when it was recorded
RECURSIVE Commands(_, _, _)
Commands(cmds, pipeline, bind_group) ==
    IF cmds = <<>> THEN <<>>
    ELSE LET c == Head(cmds)
         IN  CASE c.op = "setPipeline" -> Commands(Tail(cmds), c.p, bind_group)
               [] c.op = "setBindGroup" -> Commands(Tail(cmds), pipeline, c.x)
               [] c.op = "beginComputePass" -> Commands(Tail(cmds), "", 0)
               [] c.op = "dispatchWorkgroups" ->
                    <<[op |-> "dispatch", p |-> pipeline, bind_group |-> bind_group,
                       x |-> c.x, data |-> <<>>]>>
                    \o Commands(Tail(cmds), pipeline, bind_group)
               [] c.op = "dispatchWorkgroupsIndirect" ->
                    <<[op |-> "dispatchIndirect", p |-> pipeline,
                       bind_group |-> bind_group, x |-> c.x, data |-> <<>>]>>
                    \o Commands(Tail(cmds), pipeline, bind_group)
               [] c.op = "copyBufferToBuffer" ->
                    <<[op |-> "copy", p |-> c.p, bind_group |-> 0, x |-> c.x,
                       data |-> c.data]>>
                    \o Commands(Tail(cmds), pipeline, bind_group)
               [] OTHER -> Commands(Tail(cmds), pipeline, bind_group)

\* encoder.finish(): the command buffer is valid when the encoder is and no
\* pass is left open
finish(e) == e.valid /\ e.open = 0

\* queue.submit([encoder.finish()]): an invalid command buffer is rejected
\* and nothing of it executes
Submit ==
    /\ sort_buffers.created
    /\ queue = <<>>
    /\ pending # NoCall
    /\ queue' = IF finish(encoder) THEN Commands(encoder.cmds, "", 0) ELSE <<>>
    /\ inflight' = IF finish(encoder) THEN pending ELSE NoCall
    /\ pending' = NoCall
    /\ encoder' = NewEncoder
    /\ UNCHANGED <<sorter, sort_buffers, gpu, dispatch_buffer, input_keys,
                   input_payload, uploaded, recorded, history, calc,
                   sessions, guess>>

\* ------------------------------------------------------------- the kernels
\* (radix_sort.wgsl: five entry points over the six-slot binding layout)

\* the 8-bit digit of a key that digit pass `pass` sorts by
Digit(key, pass) == (key \div (RS_RADIX_SIZE ^ pass)) % RS_RADIX_SIZE

\* the elements a dispatch of wg workgroups works on: a block per workgroup,
\* cut at the element count of the state record
Covered(mem, wg) ==
    Min(Min(mem.state.num_keys, wg * HISTO_BLOCK_KVS), Len(mem.keys_a))

\* histogram entries are kept for the digit values that occur; any other
\* entry is zero
HistGet(h, d) == IF d \in DOMAIN h THEN h[d] ELSE 0

RECURSIVE SumBelow(_, _, _)
SumBelow(h, ds, d) ==
    IF ds = {} THEN 0
    ELSE LET e == CHOOSE e \in ds : TRUE
         IN  (IF e < d THEN h[e] ELSE 0) + SumBelow(h, ds \ {e}, d)

zero_histograms(mem, wg) ==
    IF wg = 0 THEN mem ELSE [mem EXCEPT !.histograms = EmptyHistograms]

\* counts, for all four digit passes at once, the digits of the keys in the
\* primary key buffer
calculate_histogram(mem, wg) ==
    IF wg = 0 THEN mem
    ELSE LET cov == Covered(mem, wg)
             dom(p) == DOMAIN mem.histograms[p]
                       \cup {Digit(mem.keys_a[i], p) : i \in 1 .. cov}
             count(p, d) == Cardinality({i \in 1 .. cov : Digit(mem.keys_a[i], p) = d})
         IN  [mem EXCEPT !.histograms =
                [p \in DOMAIN @ |->
                    [d \in dom(p) |-> HistGet(@[p], d) + count(p, d)]]]

\* one workgroup per digit pass: the counts become exclusive-scan offsets
prefix_histogram(mem, wg) ==
    [mem EXCEPT !.histograms =
        [p \in DOMAIN @ |->
            IF p < wg THEN [d \in DOMAIN @[p] |-> SumBelow(@[p], DOMAIN @[p], d)]
            ELSE @[p]]]

\* stable scatter of the covered elements of src into dst by the digit of
\* pass `pass`; a destination outside the valid range is not modelled
Scatter(mem, wg, pass, src_keys, src_payload, dst_keys, dst_payload) ==
    LET cov == Covered(mem, wg)
        h == mem.histograms[pass]
        digit(i) == Digit(mem[src_keys][i], pass)
        rank(i) == Cardinality({j \in 1 .. (i - 1) : digit(j) = digit(i)})
        dest(i) == HistGet(h, digit(i)) + rank(i) + 1
        writers(q) == {i \in 1 .. cov : dest(i) = q}
        last(q) == CHOOSE i \in writers(q) : \A j \in writers(q) : j <= i
        moved(src, dst) ==
            [q \in 1 .. Len(dst) |-> IF writers(q) # {} THEN src[last(q)] ELSE dst[q]]
    IN  [mem EXCEPT ![dst_keys] = moved(mem[src_keys], mem[dst_keys]),
                    ![dst_payload] = moved(mem[src_payload], mem[dst_payload])]

\* even parity: digit 2 * even_pass, primary -> auxiliary
scatter_even(mem, wg) ==
    IF wg = 0 THEN mem
    ELSE [Scatter(mem, wg, 2 * mem.state.even_pass,
                  "keys_a", "payload_a", "keys_b", "payload_b")
            EXCEPT !.state.even_pass = (@ + 1) % 2]

\* odd parity: digit 2 * odd_pass + 1, auxiliary -> primary
scatter_odd(mem, wg) ==
    IF wg = 0 THEN mem
    ELSE [Scatter(mem, wg, 2 * mem.state.odd_pass + 1,
                  "keys_b", "payload_b", "keys_a", "payload_a")
            EXCEPT !.state.odd_pass = (@ + 1) % 2]

\* ------------------------------------------------------------- the device

Workgroups(item) == IF item.op = "dispatchIndirect" THEN dispatch_buffer[1] ELSE item.x

Copied(dst, data) ==
    [i \in 1 .. Len(dst) |-> IF i <= Len(data) THEN data[i] ELSE dst[i]]

Run(mem, item) ==
    CASE item.op = "copy" -> [mem EXCEPT ![item.p] = Copied(@, item.data)]
      [] item.p = "zero_histograms" -> zero_histograms(mem, Workgroups(item))
      [] item.p = "calculate_histogram" -> calculate_histogram(mem, Workgroups(item))
      [] item.p = "prefix_histogram" -> prefix_histogram(mem, Workgroups(item))
      [] item.p = "scatter_even" -> scatter_even(mem, Workgroups(item))
      [] item.p = "scatter_odd" -> scatter_odd(mem, Workgroups(item))
      [] OTHER -> mem

\* the record of the sorts executed so far: how many, whether all of them
\* were direct sorts of the whole array, the first call, and the primary
\* buffers as the first sort left them
NoHistory ==
    [count |-> 0, full |-> TRUE, first |-> NoCall, keys |-> <<>>, payload |-> <<>>]

IsFull(call) ==
    call.op = "sort" /\ (call.sort_first_n = NULL \/ call.sort_first_n = len)

Executed(h, call, mem) ==
    [count |-> h.count + 1,
     full |-> h.full /\ IsFull(call),
     first |-> IF h.count = 0 THEN call ELSE h.first,
     keys |-> IF h.count = 0 THEN mem.keys_a ELSE h.keys,
     payload |-> IF h.count = 0 THEN mem.payload_a ELSE h.payload]

\* the queue executes the recorded commands one after the other, in order
Execute ==
    /\ queue # <<>>
    /\ gpu' = Run(gpu, Head(queue))
    /\ queue' = Tail(queue)
    /\ inflight' = IF queue' = <<>> THEN NoCall ELSE inflight
    /\ history' = IF queue' = <<>> THEN Executed(history, inflight, gpu') ELSE history
    /\ UNCHANGED <<sorter, sort_buffers, encoder, dispatch_buffer, input_keys,
                   input_payload, uploaded, recorded, pending, calc,
                   sessions, guess>>

\* ------------------------------------- sessions on several resource sets

\* number of sort()/sort_indirect() calls made in one run of SessionsSpec
MaxCalls == 2

ResourceSets == 1 .. 2

Encoders == 1 .. 2

\* element counts of the resource sets: none, one block, two blocks
SessionLengths == {0, 1, SCATTER_BLOCK_KVS + 1}

NoSessions ==
    [sets |-> [r \in ResourceSets |->
                  [created |-> FALSE, length |-> 0, bind_group |-> 0]],
     bind_groups |-> 0,
     encoders |-> [e \in Encoders |-> NewEncoder],
     calls |-> <<>>]

\* GPUSorter.create_sort_buffers for resource set r: a new bind group over
\* the new buffers
session_create_sort_buffers(r, length) ==
    /\ ~sessions.sets[r].created
    /\ sessions' = [sessions EXCEPT
                        !.sets[r] = [created |-> TRUE, length |-> length,
                                     bind_group |-> sessions.bind_groups + 1],
                        !.bind_groups = @ + 1]
    /\ UNCHANGED <<sorter, sort_buffers, gpu, encoder, queue, dispatch_buffer,
                   input_keys, input_payload, uploaded, recorded, pending,
                   inflight, history, calc, guess>>

\* a plausible slip: the bind group created last, kept by the sorter
session_bind_group_latest(r) == sessions.bind_groups

\* sort_buffers.bind_group of the resource set handed to the call
session_bind_group(r) == sessions.sets[r].bind_group

\* GPUSorter.sort on resource set r, recording into command encoder e
session_sort(r, e, sort_first_n) ==
    /\ sessions.sets[r].created
    /\ Len(sessions.calls) < MaxCalls
    /\ LET bind_group == session_bind_group(r)
           num_elementsVar == IF sort_first_n # NULL THEN sort_first_n
                              ELSE sessions.sets[r].length
       IN  sessions' = [sessions EXCEPT
                !.encoders[e] = Record(@,
                    record_calculate_histogram(bind_group, num_elementsVar)
                    \o record_prefix_histogram(bind_group)
                    \o record_scatter_keys(bind_group, num_elementsVar)),
                !.calls = Append(@, [r |-> r, e |-> e, op |-> "sort",
                                     sort_first_n |-> sort_first_n])]
    /\ UNCHANGED <<sorter, sort_buffers, gpu, encoder, queue, dispatch_buffer,
                   input_keys, input_payload, uploaded, recorded, pending,
                   inflight, history, calc, guess>>

\* GPUSorter.sort_indirect on resource set r, recording into command encoder e
session_sort_indirect(r, e) ==
    /\ sessions.sets[r].created
    /\ Len(sessions.calls) < MaxCalls
    /\ LET bind_group == session_bind_group(r)
       IN  sessions' = [sessions EXCEPT
                !.encoders[e] = Record(@,
                    record_calculate_histogram_indirect(bind_group)
                    \o record_prefix_histogram(bind_group)
                    \o record_scatter_keys_indirect(bind_group)),
                !.calls = Append(@, [r |-> r, e |-> e, op |-> "sort_indirect",
                                     sort_first_n |-> NULL])]
    /\ UNCHANGED <<sorter, sort_buffers, gpu, encoder, queue, dispatch_buffer,
                   input_keys, input_payload, uploaded, recorded, pending,
                   inflight, history, calc, guess>>

\* ------------------------------------------------- the calibration helper

\* the candidate widths of guess_workgroup_size
elements == <<1, 8, 16, 32, 64, 128>>

NoTest == [n |-> 0, dispatches |-> <<>>, valid |-> FALSE, same |-> FALSE]

GuessOff ==
    [pc |-> "off", i |-> 0, best |-> NULL, cur_sorter |-> NULL, works |-> {},
     tested |-> <<>>, test |-> NoTest, result |-> NULL]

\* test_sort: one sort of the reversed sequence 8191 .. 0 and its readback;
\* the device sorts correctly with the widths in `works`
test_sort(cur_sorter, works) ==
    LET n == 8192
        scrambled_data == [i \in 1 .. n |-> n - i]
        keyValBuffer == create_keyval_buffers(n)
        staging_buffer == createBufferInit(scrambled_data)
        bind_group == 1
        recording == Record(NewEncoder,
                        record_calculate_histogram(bind_group, n)
                        \o record_prefix_histogram(bind_group)
                        \o record_scatter_keys(bind_group, n))
        resultBuffer == n * RS_KEYVAL_SIZE
        valid == /\ staging_buffer <= keyValBuffer.keys
                 /\ resultBuffer <= keyValBuffer.keys
                 /\ finish(recording)
        ds == Commands(recording.cmds, "", 0)
    IN  [n |-> n,
         dispatches |-> [j \in 1 .. Len(ds) |-> <<ds[j].p, ds[j].x>>],
         valid |-> valid,
         same |-> valid /\ cur_sorter \in works]

\* a plausible slip: a failing width forgets the widths that passed before
next_best_reset(best, subgroup_size, sort_success) ==
    IF sort_success THEN subgroup_size ELSE NULL

\* the value of best after the self-test of one width
next_best(best, subgroup_size, sort_success) ==
    IF sort_success THEN subgroup_size ELSE best

\* one iteration of the loop of guess_workgroup_size
guess_workgroup_size_loop ==
    /\ guess.pc = "loop"
    /\ guess.i < Len(elements)
    /\ LET subgroup_size == elements[guess.i + 1]
           cur_sorter == subgroup_size
           test == test_sort(cur_sorter, guess.works)
           sort_success == test.same
       IN  guess' = [guess EXCEPT
                        !.cur_sorter = cur_sorter,
                        !.test = test,
                        !.tested = Append(@, <<subgroup_size, sort_success>>),
                        !.best = next_best(@, subgroup_size, sort_success),
                        !.i = @ + 1]
    /\ UNCHANGED <<sorter, sort_buffers, gpu, encoder, queue, dispatch_buffer,
                   input_keys, input_payload, uploaded, recorded, pending,
                   inflight, history, calc, sessions>>

\* the loop is over: best is returned
guess_workgroup_size_return ==
    /\ guess.pc = "loop"
    /\ guess.i >= Len(elements)
    /\ guess' = [guess EXCEPT !.pc = "done", !.result = guess.best]
    /\ UNCHANGED <<sorter, sort_buffers, gpu, encoder, queue, dispatch_buffer,
                   input_keys, input_payload, uploaded, recorded, pending,
                   inflight, history, calc, sessions>>

\* ----------------------------------------------------------- specification

\* GPUSorter constructor: the five pipelines by entry point
GPUSorter ==
    [zero_p |-> "zero_histograms", histogram_p |-> "calculate_histogram",
     prefix_p |-> "prefix_histogram", scatter_even_p |-> "scatter_even",
     scatter_odd_p |-> "scatter_odd"]

CalcOff ==
    [pc |-> "off", n |-> 0, scatter_blocks |-> 0, histo_blocks |-> 0,
     keys_size |-> 0, keyval |-> create_keyval_buffers(0), internal_size |-> 0]

Init ==
    /\ sorter = GPUSorter
    /\ sort_buffers = NoSortBuffers
    /\ gpu = NoGpu
    /\ encoder = NewEncoder
    /\ queue = <<>>
    /\ dispatch_buffer = <<0, 1, 1>>
    /\ input_keys = <<>>
    /\ input_payload = <<>>
    /\ uploaded = FALSE
    /\ recorded = 0
    /\ pending = NoCall
    /\ inflight = NoCall
    /\ history = NoHistory
    /\ calc = CalcOff
    /\ sessions = NoSessions
    /\ guess = GuessOff

Next ==
    \/ \E n \in Lengths : create_sort_buffers(n)
    \/ CanUpload /\ \E ks \in [1 .. len -> KeySet], ps \in Payloads(len) : main_upload(ks, ps)
    \/ CanUpload /\ \E ks \in [1 .. len -> KeySet] : test_upload(ks)
    \/ \E k \in SortFirstN : sort(k)
    \/ \E x \in DispatchX : sort_indirect(x)
    \/ Submit
    \/ Execute

Spec == Init /\ [][Next]_vars

\* ------------------------------------------ the layout calculator on its own

LayoutInit ==
    /\ sorter = GPUSorter
    /\ sort_buffers = NoSortBuffers
    /\ gpu = NoGpu
    /\ encoder = NewEncoder
    /\ queue = <<>>
    /\ dispatch_buffer = <<0, 1, 1>>
    /\ input_keys = <<>>
    /\ input_payload = <<>>
    /\ uploaded = FALSE
    /\ recorded = 0
    /\ pending = NoCall
    /\ inflight = NoCall
    /\ history = NoHistory
    /\ \E n \in 0 .. MaxN : calc = [CalcOff EXCEPT !.pc = "in", !.n = n]
    /\ sessions = NoSessions
    /\ guess = GuessOff

\* the sizes create_sort_buffers derives from the element count
Layout ==
    /\ calc.pc = "in"
    /\ calc' = [pc |-> "out", n |-> calc.n,
                scatter_blocks |-> scatter_blocks_ru(calc.n),
                histo_blocks |-> histo_blocks_ru(calc.n),
                keys_size |-> keys_buffer_size(calc.n),
                keyval |-> create_keyval_buffers(calc.n),
                internal_size |-> create_internal_mem_buffer(calc.n)]
    /\ UNCHANGED <<sorter, sort_buffers, gpu, encoder, queue, dispatch_buffer,
                   input_keys, input_payload, uploaded, recorded, pending,
                   inflight, history,
                   sessions, guess>>

LayoutNext == Layout

LayoutSpec == LayoutInit /\ [][LayoutNext]_vars

\* ------------------------------------ sessions sharing one GPUSorter

SessionsInit ==
    /\ sorter = GPUSorter
    /\ sort_buffers = NoSortBuffers
    /\ gpu = NoGpu
    /\ encoder = NewEncoder
    /\ queue = <<>>
    /\ dispatch_buffer = <<0, 1, 1>>
    /\ input_keys = <<>>
    /\ input_payload = <<>>
    /\ uploaded = FALSE
    /\ recorded = 0
    /\ pending = NoCall
    /\ inflight = NoCall
    /\ history = NoHistory
    /\ calc = CalcOff
    /\ sessions = NoSessions
    /\ guess = GuessOff

SessionsNext ==
    \/ \E r \in ResourceSets, n \in SessionLengths : session_create_sort_buffers(r, n)
    \/ \E r \in ResourceSets, e \in Encoders, k \in SortFirstN : session_sort(r, e, k)
    \/ \E r \in ResourceSets, e \in Encoders : session_sort_indirect(r, e)

SessionsSpec == SessionsInit /\ [][SessionsNext]_vars

\* ------------------------------------------- the calibration helper's run

\* the device runs the kernel correctly for some of the candidate widths
GuessInit ==
    /\ sorter = GPUSorter
    /\ sort_buffers = NoSortBuffers
    /\ gpu = NoGpu
    /\ encoder = NewEncoder
    /\ queue = <<>>
    /\ dispatch_buffer = <<0, 1, 1>>
    /\ input_keys = <<>>
    /\ input_payload = <<>>
    /\ uploaded = FALSE
    /\ recorded = 0
    /\ pending = NoCall
    /\ inflight = NoCall
    /\ history = NoHistory
    /\ calc = CalcOff
    /\ sessions = NoSessions
    /\ \E works \in SUBSET {elements[j] : j \in 1 .. Len(elements)} :
          guess = [GuessOff EXCEPT !.pc = "loop", !.works = works]

GuessNext ==
    \/ guess_workgroup_size_loop
    \/ guess_workgroup_size_return

GuessSpec == GuessInit /\ [][GuessNext]_vars

\* ------------------------------------------------------ reference notions

IsSorted(s) == \A i \in 1 .. (Len(s) - 1) : s[i] <= s[i + 1]

Occurrences(s, v) == Cardinality({i \in 1 .. Len(s) : s[i] = v})

SameMultiset(s, t) ==
    /\ Len(s) = Len(t)
    /\ \A i \in 1 .. Len(s) : Occurrences(s, s[i]) = Occurrences(t, s[i])

\* ks/ps are the pairs of ks0/ps0 in some order
PairedPermutation(ks, ps, ks0, ps0) ==
    /\ Len(ks) = Len(ks0)
    /\ Len(ps) = Len(ks0)
    /\ Len(ps0) = Len(ks0)
    /\ \E f \in Permutations(1 .. Len(ks0)) :
          \A i \in 1 .. Len(ks0) : ks[i] = ks0[f[i]] /\ ps[i] = ps0[f[i]]

\* sorted by the low j digits
SortedByLowDigits(s, j) ==
    IF j >= 4 THEN IsSorted(s)
    ELSE \A i \in 1 .. (Len(s) - 1) : s[i] % (256 ^ j) <= s[i + 1] % (256 ^ j)

\* the least q with q * b >= a
CeilDiv(a, b) == CHOOSE q \in 0 .. a : q * b >= a /\ \A r \in 0 .. (q - 1) : r * b < a

\* the device is idle, and the k sort calls made so far were all direct sorts
\* of the whole array and were all executed
FullSortsDone(k) ==
    /\ sort_buffers.created
    /\ queue = <<>>
    /\ pending = NoCall
    /\ recorded = k
    /\ history.count = k
    /\ history.full

\* how many of the four scatter dispatches of the sort in flight have run
ScattersDone ==
    NUM_PASSES - Len(SelectSeq(queue, LAMBDA item :
                        item.p \in {"scatter_even", "scatter_odd"}))

\* ------------------------------------------------------------------ claims

\* C1: after one full direct sort of n uploaded keys the first n entries of
\* the primary key buffer are the input keys in ascending order.
C1_FullSortSortsKeys ==
    FullSortsDone(1) =>
        /\ Len(gpu.keys_a) = len
        /\ IsSorted(gpu.keys_a)
        /\ SameMultiset(gpu.keys_a, input_keys)

C1_Witness ==
    /\ FullSortsDone(1)
    /\ len >= 3
    /\ input_keys[1] > input_keys[2]
    /\ input_keys[2] > input_keys[3]
    /\ gpu.keys_a # input_keys

\* C2: after one full direct sort the payload at position i of the primary
\* payload buffer is the payload that was uploaded with the key now at
\* position i of the primary key buffer.
C2_PayloadFollowsKey ==
    FullSortsDone(1) =>
        PairedPermutation(gpu.keys_a, gpu.payload_a, input_keys, input_payload)

C2_Witness ==
    /\ FullSortsDone(1)
    /\ len >= 2
    /\ input_keys[1] > input_keys[2]
    /\ input_payload[1] # input_payload[2]
    /\ gpu.payload_a[1] = input_payload[2]
    /\ gpu.payload_a[2] = input_payload[1]

\* the count sort() is called for: sort_first_n when it is given, else len()
EffectiveCount(call) == IF call.sort_first_n = NULL THEN len ELSE call.sort_first_n

\* the dispatches of the command list being recorded, as <<pipeline, count>>
RecordedDispatches ==
    LET ds == SelectSeq(Commands(encoder.cmds, "", 0), LAMBDA item : item.op # "copy")
    IN  [i \in 1 .. Len(ds) |-> <<ds[i].op, ds[i].p, ds[i].x>>]

\* C3: one call of sort() with effective count m records exactly seven
\* dispatches: zero and histogram over histo_blocks_ru(m), prefix-scan over
\* 4, then scatter even, odd, even, odd over scatter_blocks_ru(m), without
\* an error, whatever m is.
C3_SevenDispatches ==
    pending.op = "sort" =>
        LET m == EffectiveCount(pending)
        IN  /\ RecordedDispatches =
                 << <<"dispatch", "zero_histograms", histo_blocks_ru(m)>>,
                    <<"dispatch", "calculate_histogram", histo_blocks_ru(m)>>,
                    <<"dispatch", "prefix_histogram", 4>>,
                    <<"dispatch", "scatter_even", scatter_blocks_ru(m)>>,
                    <<"dispatch", "scatter_odd", scatter_blocks_ru(m)>>,
                    <<"dispatch", "scatter_even", scatter_blocks_ru(m)>>,
                    <<"dispatch", "scatter_odd", scatter_blocks_ru(m)>> >>
            /\ encoder.open = 0
            /\ (encoder.valid \/ (uploaded /\ len = 0))

C3_Witness ==
    /\ pending.op = "sort"
    /\ pending.sort_first_n > len
    /\ len = 2
    /\ RecordedDispatches[1][3] = 2
    /\ RecordedDispatches[7] = <<"dispatch", "scatter_odd", 2>>

\* the device is idle and every sort call made so far was a direct sort of
\* the whole array that the device has executed
OnlyFullSortsDone ==
    /\ sort_buffers.created
    /\ queue = <<>>
    /\ pending = NoCall
    /\ recorded = history.count
    /\ history.full

\* the device is executing a direct sort of the whole array, as were all the
\* sorts before it
FullSortInFlight ==
    /\ inflight.op = "sort"
    /\ IsFull(inflight)
    /\ recorded = history.count + 1
    /\ history.full

\* the buffers hold the uploaded pairs, ordered by the j digits sorted so far
Live(ks, ps, j) ==
    /\ PairedPermutation(ks, ps, input_keys, input_payload)
    /\ SortedByLowDigits(ks, j)

\* C4: within a full sort the live data is in the auxiliary buffers after
\* scatter 1 and 3 and in the primary buffers after scatter 2 and 4; after
\* any number of completed full sorts the sorted pairs are in the primary
\* buffers, the buffers keys() and values() return.
C4_PingPong ==
    /\ FullSortInFlight =>
          /\ ScattersDone \in {1, 3} => Live(gpu.keys_b, gpu.payload_b, ScattersDone)
          /\ ScattersDone = 2 => Live(gpu.keys_a, gpu.payload_a, 2)
    /\ (OnlyFullSortsDone /\ history.count >= 1) =>
          /\ Live(gpu[keys], gpu[values], 4)
          /\ keys = "keys_a"
          /\ values = "payload_a"

C4_Witness ==
    /\ FullSortInFlight
    /\ history.count = 1
    /\ ScattersDone = 3
    /\ len >= 3
    /\ gpu.keys_b # gpu.keys_a
    /\ ~IsSorted(gpu.keys_a)
    /\ IsSorted(gpu.keys_b)

\* C5 (as claimed): after sort(k) with 0 <= k < n the first k entries of the
\* primary key buffer are the ascending sort of the first k input keys, with
\* their payloads, the state record still holding n.
C5_PartialSortSortsFirstK ==
    LET k == history.first.sort_first_n
    IN  ( /\ sort_buffers.created
          /\ queue = <<>>
          /\ recorded = 1
          /\ history.count = 1
          /\ history.first.op = "sort"
          /\ k # NULL
          /\ 0 <= k
          /\ k < len ) =>
            /\ gpu.state.num_keys = len
            /\ IsSorted(SubSeq(gpu.keys_a, 1, k))
            /\ PairedPermutation(SubSeq(gpu.keys_a, 1, k), SubSeq(gpu.payload_a, 1, k),
                                 SubSeq(input_keys, 1, k), SubSeq(input_payload, 1, k))

C7_KeyBufferBytes ==
    calc.pc = "out" =>
        /\ calc.keyval.keys = keys_buffer_size(calc.n) * 4
        /\ calc.keyval.keys_aux = keys_buffer_size(calc.n) * 4

\* C8: keys_valid_size() is n * 4 bytes in every state of a resource set
\* created for n elements, whatever was sorted, and never more than the
\* allocated byte size of the key buffer.
C8_ValidSize ==
    sort_buffers.created =>
        /\ keys_valid_size = sort_buffers.length * 4
        /\ keys_valid_size = Len(gpu.keys_a) * 4
        /\ keys_valid_size <= sort_buffers.keys_a

C8_Witness ==
    /\ sort_buffers.created
    /\ queue = <<>>
    /\ history.count = 2
    /\ history.first.op = "sort"
    /\ history.first.sort_first_n = 0
    /\ len = 3
    /\ keys_valid_size = 12
    /\ keys_valid_size < keys_buffer_size(len) * 4

\* C9: with S = H = 256 * 15 = 3840, scatter_blocks_ru(n) = ceil(n / S),
\* histo_blocks_ru(n) = ceil(scatter_blocks_ru(n) * S / H) and
\* keys_buffer_size(n) = histo_blocks_ru(n) * H, for every n >= 0.
C9_LayoutFormulas ==
    /\ SCATTER_BLOCK_KVS = 256 * 15
    /\ HISTO_BLOCK_KVS = 256 * 15
    /\ calc.pc = "out" =>
          /\ calc.scatter_blocks = CeilDiv(calc.n, 3840)
          /\ calc.histo_blocks = CeilDiv(calc.scatter_blocks * 3840, 3840)
          /\ calc.keys_size = calc.histo_blocks * 3840
          /\ (calc.n = 0 => calc.scatter_blocks = 0)

C9_Witness ==
    /\ calc.pc = "out"
    /\ calc.n = 3841
    /\ calc.scatter_blocks = 2
    /\ calc.histo_blocks = 2
    /\ calc.keys_size = 7680

\* C10: the state record is created as {n, keys_buffer_size(n), 0, 0}; no
\* host-side operation writes to it afterwards, and the element count and
\* the padded capacity never change.
C10_StateRecordWrittenOnce ==
    [][ /\ (~sort_buffers.created /\ sort_buffers'.created) =>
              gpu'.state = [num_keys |-> sort_buffers'.length,
                            padded_size |-> keys_buffer_size(sort_buffers'.length),
                            even_pass |-> 0, odd_pass |-> 0]
        /\ (sort_buffers.created /\ queue = <<>>) => gpu'.state = gpu.state
        /\ sort_buffers.created =>
              /\ gpu'.state.num_keys = sort_buffers.length
              /\ gpu'.state.padded_size = keys_buffer_size(sort_buffers.length) ]_vars

C10_Witness ==
    /\ sort_buffers.created
    /\ queue = <<>>
    /\ history.count = 1
    /\ history.first.op = "sort"
    /\ history.first.sort_first_n = 1
    /\ len = 3
    /\ gpu.state = [num_keys |-> 3, padded_size |-> 3840, even_pass |-> 0, odd_pass |-> 0]

\* every pass begun is ended before the next one is begun, and none is left
\* open at the end of the command list
RECURSIVE PassesWellFormed(_, _)
PassesWellFormed(cmds, open) ==
    IF cmds = <<>> THEN open = 0
    ELSE CASE Head(cmds).op = "beginComputePass" ->
                open = 0 /\ PassesWellFormed(Tail(cmds), 1)
           [] Head(cmds).op = "end" ->
                open = 1 /\ PassesWellFormed(Tail(cmds), 0)
           [] OTHER -> PassesWellFormed(Tail(cmds), open)

\* the dispatches an encoder was asked for, as <<pipeline, workgroup count>>,
\* an indirect count being the x the dispatch buffer holds
CalledDispatches(e) ==
    LET ds == SelectSeq(Commands(e.cmds, "", 0), LAMBDA item : item.op # "copy")
    IN  [i \in 1 .. Len(ds) |-> <<ds[i].p, Workgroups(ds[i])>>]

\* the uploads recorded in the encoder before the sort call
UploadPart(e) == SelectSeq(e.cmds, LAMBDA c : c.op = "copyBufferToBuffer")

\* the encoder as a direct sort of the whole array would have left it
DirectFullSort ==
    LET bind_group == sort_buffers.bind_group
    IN  Record(NewEncoder,
               UploadPart(encoder)
               \o record_calculate_histogram(bind_group, len)
               \o record_prefix_histogram(bind_group)
               \o record_scatter_keys(bind_group, len))

C17_PassesEnded ==
    pending.op \in {"sort", "sort_indirect"} =>
        /\ PassesWellFormed(encoder.cmds, 0)
        /\ encoder.open = 0

\* C15: for every n and every effective count k <= n the histogram blocks
\* cover the scatter blocks, which cover the k elements, and stay inside the
\* key buffers: histo_blocks_ru(k) * H >= scatter_blocks_ru(k) * S >= k and
\* histo_blocks_ru(k) * H <= keys_buffer_size(n), the smallest multiple of H
\* that is >= n, which the allocated bytes hold as 4-byte keys.
C15_BlocksInsideBuffers ==
    calc.pc = "out" =>
        /\ calc.keys_size % HISTO_BLOCK_KVS = 0
        /\ calc.keys_size >= calc.n
        /\ calc.keys_size - HISTO_BLOCK_KVS < calc.n
        /\ calc.keys_size * 4 <= calc.keyval.keys
        /\ calc.keys_size * 4 <= calc.keyval.keys_aux
        /\ \A k \in 0 .. calc.n :
              /\ histo_blocks_ru(k) * HISTO_BLOCK_KVS >= scatter_blocks_ru(k) * SCATTER_BLOCK_KVS
              /\ scatter_blocks_ru(k) * SCATTER_BLOCK_KVS >= k
              /\ histo_blocks_ru(k) * HISTO_BLOCK_KVS <= calc.keys_size

C15_Witness ==
    /\ calc.pc = "out"
    /\ calc.n = 2 * HISTO_BLOCK_KVS + 1
    /\ calc.keys_size = 3 * HISTO_BLOCK_KVS
    /\ histo_blocks_ru(calc.n - 1) * HISTO_BLOCK_KVS = calc.n - 1
    /\ histo_blocks_ru(calc.n) * HISTO_BLOCK_KVS = calc.keys_size

\* C16 (as claimed): the scratch buffer of (4 + scatter_blocks_ru(n)) * 256
\* words holds, in order and without overlap, 4 histograms of 256 words,
\* scatter_blocks_ru(n) - 1 partitions of 256 words and a reserved section:
\* 0 <= 4 * 256 <= (4 + scatter_blocks_ru(n) - 1) * 256 <= allocated size,
\* for every n >= 0, n = 0 included.
C16_ScratchSections ==
    calc.pc = "out" =>
        LET words == calc.internal_size \div 4
            histograms_end == RS_KEYVAL_SIZE * RS_RADIX_SIZE
            partitions_end == (RS_KEYVAL_SIZE + calc.scatter_blocks - 1) * RS_RADIX_SIZE
        IN  /\ calc.internal_size = (4 + calc.scatter_blocks) * 256 * 4
            /\ calc.scatter_blocks - 1 >= 0
            /\ 0 <= histograms_end
            /\ histograms_end <= partitions_end
            /\ partitions_end <= words

\* C18: the scatter and histogram block sizes are equal, so
\* histo_blocks_ru(n) = scatter_blocks_ru(n) = ceil(n / 3840) for every
\* n >= 0, and every indirect dispatch of the zero, histogram and scatter
\* pipelines reads its workgroup count at offset 0 of the dispatch buffer.
C18_OneCountForAll ==
    /\ RS_SCATTER_BLOCK_ROWS = RS_HISTOGRAM_BLOCK_ROWS
    /\ SCATTER_BLOCK_KVS = HISTO_BLOCK_KVS
    /\ calc.pc = "out" =>
          /\ calc.histo_blocks = calc.scatter_blocks
          /\ calc.histo_blocks = CeilDiv(calc.n, 3840)
          /\ calc.scatter_blocks = CeilDiv(calc.n, 3840)
    /\ LET indirect == record_calculate_histogram_indirect(1)
                       \o record_scatter_keys_indirect(1)
           reads == SelectSeq(indirect, LAMBDA c : c.op = "dispatchWorkgroupsIndirect")
       IN  /\ Len(reads) = 6
           /\ \A i \in 1 .. Len(reads) : reads[i].x = 0

C18_Witness ==
    /\ calc.pc = "out"
    /\ calc.n = 2 * SCATTER_BLOCK_KVS + 1
    /\ calc.histo_blocks = 3
    /\ calc.scatter_blocks = 3

\* the order of the pipelines in one sort
PipelineOrder ==
    <<"zero_histograms", "calculate_histogram", "prefix_histogram",
      "scatter_even", "scatter_odd", "scatter_even", "scatter_odd">>

\* the seven dispatches of one call as a session running alone records
\* them: the pipelines in order, the counts of the call's element count, and
\* the bind group of the call's own resource set
AloneDispatches(call) ==
    LET set == sessions.sets[call.r]
        m == IF call.sort_first_n = NULL THEN set.length ELSE call.sort_first_n
        blocks == CeilDiv(m, 3840)
    IN  [j \in 1 .. 7 |->
            [op |-> IF call.op = "sort" \/ j = 3 THEN "dispatch" ELSE "dispatchIndirect",
             p |-> PipelineOrder[j],
             bind_group |-> set.bind_group,
             x |-> IF j = 3 THEN 4 ELSE IF call.op = "sort" THEN blocks ELSE 0,
             data |-> <<>>]]

\* the dispatches of the calls that were recorded into encoder e, in order
RECURSIVE AloneAll(_, _)
AloneAll(calls, e) ==
    IF calls = <<>> THEN <<>>
    ELSE (IF Head(calls).e = e THEN AloneDispatches(Head(calls)) ELSE <<>>)
         \o AloneAll(Tail(calls), e)

\* C12: the five pipelines of a GPUSorter never change, and however the
\* sort calls on distinct resource sets are interleaved, each call records
\* the dispatch sequence it records alone and binds the bind group of its
\* own resource set only.
C12_SessionsIndependent ==
    /\ sorter = GPUSorter
    /\ \A r1, r2 \in ResourceSets :
          (r1 # r2 /\ sessions.sets[r1].created /\ sessions.sets[r2].created) =>
              sessions.sets[r1].bind_group # sessions.sets[r2].bind_group
    /\ \A e \in Encoders :
          Commands(sessions.encoders[e].cmds, "", 0) = AloneAll(sessions.calls, e)

C12_Witness ==
    /\ Len(sessions.calls) = 2
    /\ sessions.calls[1].r = 2
    /\ sessions.calls[2].r = 1
    /\ sessions.calls[1].e = sessions.calls[2].e
    /\ sessions.calls[1].op = "sort"
    /\ sessions.calls[2].op = "sort"
    /\ sessions.sets[1].length = 1
    /\ sessions.sets[2].length = SCATTER_BLOCK_KVS + 1
    /\ sessions.sets[1].bind_group = 2
    /\ Len(Commands(sessions.encoders[sessions.calls[1].e].cmds, "", 0)) = 14

\* C13 (as claimed): the self-test size 8192 needs exactly two scatter
\* blocks, scatter_blocks_ru(8192) = 2, and the self-test sort dispatches
\* two workgroups in each of its four scatter passes.
C13_SelfTestTwoBlocks ==
    guess.test.n = 8192 =>
        /\ scatter_blocks_ru(guess.test.n) = 2
        /\ Len(guess.test.dispatches) = 7
        /\ \A j \in 4 .. 7 : guess.test.dispatches[j][2] = 2

\* the widths among the candidates whose self-test passes on this device
Passing == {w \in {elements[j] : j \in 1 .. Len(elements)} : w \in guess.works}

\* C14: guess_workgroup_size tests the six widths 1, 8, 16, 32, 64, 128
\* once each in ascending order, goes on after a failing width, and returns
\* the largest width whose self-test passed, null exactly when none passed.
C14_LargestPassingWidth ==
    /\ guess.pc \in {"loop", "done"} =>
          /\ Len(guess.tested) = guess.i
          /\ guess.i <= 6
          /\ \A j \in 1 .. Len(guess.tested) :
                /\ guess.tested[j][1] = <<1, 8, 16, 32, 64, 128>>[j]
                /\ guess.tested[j][2] = (guess.tested[j][1] \in Passing)
    /\ guess.pc = "done" =>
          /\ Len(guess.tested) = 6
          /\ (guess.result = NULL) <=> (Passing = {})
          /\ Passing # {} =>
                /\ guess.result \in Passing
                /\ \A w \in Passing : w <= guess.result

C14_Witness ==
    /\ guess.pc = "done"
    /\ guess.works = {1, 32}
    /\ guess.result = 32
    /\ guess.tested[2] = <<8, FALSE>>
    /\ guess.tested[6] = <<128, FALSE>>

====
